---- MODULE Spec2Model ----
(***************************************************************************)
(* Per placement connection handling (placement_connection.c).             *)
(*                                                                         *)
(* State: the three hash tables (ConnectionPlacementHash,                  *)
(* ColocatedPlacementsHash, ConnectionShardHash), the ConnectionReference  *)
(* structs allocated in TopTransactionContext, and the MultiConnection     *)
(* structs of the connection pool with their referencedPlacements lists.   *)
(***************************************************************************)
EXTENDS Integers, Sequences, FiniteSets, TLC

\* ---------------------------------------------------------------- bounds
MaxLen == 2         \* longest placementAccessList handed to an acquire
MaxConn == 2        \* connections the pool opens in one run
MaxCalls == 3       \* acquires in one run
MaxListCalls == 1   \* of these, acquires for a list of more than one access
MaxChecks == 2      \* commit-time checks in one run of SpecCommit
MaxCommitCalls == 3 \* acquires in one run of SpecCommit

\* ------------------------------------------------------------- constants
INVALID_SHARD_ID == 0
NoConn == 0         \* NULL MultiConnection pointer
NoKey == <<>>       \* NULL colocatedEntry pointer
NoUser == "null"    \* NULL userName of a zero-allocated ConnectionReference

AccessTypes == {"SELECT", "DML", "DDL"}
Users == {"u", "v"}

\* the user of the commands that hand in a list; another user's connection
\* gets bound through StartPlacementConnection
ListUsers == {"u"}

\* the placements the planner can hand in; placement 0 is the dummy
\* placement of a SELECT that pruned down to 0 shards
PlacementIds == 0 .. 4
RealPlacements == PlacementIds \ {0}

Placement ==
  [ p \in PlacementIds |->
      CASE p = 0 -> [shardId |-> INVALID_SHARD_ID, nodeName |-> "A", nodePort |-> 1,
                     partitionMethod |-> "HASH", colocationGroupId |-> 0,
                     representativeValue |-> 0]
        [] p = 1 -> [shardId |-> 1, nodeName |-> "A", nodePort |-> 1,
                     partitionMethod |-> "HASH", colocationGroupId |-> 1,
                     representativeValue |-> 0]
        [] p = 2 -> [shardId |-> 2, nodeName |-> "A", nodePort |-> 1,
                     partitionMethod |-> "HASH", colocationGroupId |-> 1,
                     representativeValue |-> 0]
        [] p = 3 -> [shardId |-> 3, nodeName |-> "A", nodePort |-> 1,
                     partitionMethod |-> "APPEND", colocationGroupId |-> 0,
                     representativeValue |-> 0]
        [] p = 4 -> [shardId |-> 1, nodeName |-> "B", nodePort |-> 1,
                     partitionMethod |-> "HASH", colocationGroupId |-> 1,
                     representativeValue |-> 0] ]

\* a dummy placement only stands for a SELECT
Accesses ==
  { a \in [placement : PlacementIds, accessType : AccessTypes] :
      Placement[a.placement].shardId = INVALID_SHARD_ID => a.accessType = "SELECT" }

RECURSIVE SeqsUpTo(_, _)
SeqsUpTo(S, n) ==
  IF n = 0 THEN {<<>>}
  ELSE LET shorter == SeqsUpTo(S, n - 1)
       IN shorter \cup { Append(s, x) : s \in {t \in shorter : Len(t) = n - 1}, x \in S }

\* the placements of the tables a run works on: a colocated pair of hash
\* partitioned tables (with the dummy placement), or a hash partitioned and an
\* append partitioned table
Workloads == {{0, 1, 2}, {1, 3}}

\* a replicated shard and a shard colocated with it: two placements of shard
\* 1, on two nodes, and a placement of shard 2
CommitWorkloads == {{1, 2, 4}}

AccessesOf(workload) == { a \in Accesses : a.placement \in workload }

\* the lists of GetPlacementListConnection's callers; a single access comes in
\* through StartPlacementConnection
AccessLists ==
  [ w \in Workloads \cup CommitWorkloads |-> { l \in SeqsUpTo(AccessesOf(w), MaxLen) : Len(l) >= 2 } ]

\* shardState values of pg_dist_placement
ShardStates == {"FILE_FINALIZED", "FILE_INACTIVE", "FILE_TO_DELETE"}

Flags == {"FOR_DDL", "FOR_DML", "FORCE_NEW_CONNECTION"}

Range(s) == { s[i] : i \in 1 .. Len(s) }

VARIABLES
  ConnectionPlacementHash,  \* placementId -> ConnectionPlacementHashEntry
  ColocatedPlacementsHash,  \* colocation key -> ColocatedPlacementsHashEntry
  ConnectionShardHash,      \* shardId -> placementConnections (list of placementIds)
  refs,                     \* address -> ConnectionReference
  conns,                    \* connection id -> MultiConnection
  shardState,               \* placementId -> shardState in pg_dist_placement
  workload,                 \* the placements the planner hands in
  budget,                   \* acquires the run may still start
  performed,                \* history: <<placementId, accessType, connection>> of
                            \* the DML/DDL accesses of successful acquires
  last                      \* the operation that led to this state, with its result

vars == <<ConnectionPlacementHash, ColocatedPlacementsHash, ConnectionShardHash,
          refs, conns, shardState, workload, budget, performed, last>>

\* ------------------------------------------------------------ hash keys
ColocatedPlacementsHashKey(p) ==
  << Placement[p].nodeName, Placement[p].nodePort,
     Placement[p].colocationGroupId, Placement[p].representativeValue >>

\* MemoryContextAllocZero hands out an unused address; the allocation made for
\* placement p is named after the smallest placement that shares it
ConRefAddressOf(p) ==
  IF Placement[p].partitionMethod \in {"HASH", "NONE"}
  THEN CHOOSE q \in RealPlacements :
         /\ Placement[q].partitionMethod \in {"HASH", "NONE"}
         /\ ColocatedPlacementsHashKey(q) = ColocatedPlacementsHashKey(p)
         /\ \A o \in RealPlacements :
              (Placement[o].partitionMethod \in {"HASH", "NONE"}
               /\ ColocatedPlacementsHashKey(o) = ColocatedPlacementsHashKey(p)) => q <= o
  ELSE p

ConRefAddressTable == [ p \in RealPlacements |-> ConRefAddressOf(p) ]

ConRefAddress(p) == ConRefAddressTable[p]

\* a zero-allocated ConnectionReference
NewConnectionReference ==
  [userName |-> NoUser, connection |-> NoConn, hadDML |-> FALSE, hadDDL |-> FALSE]

\* ------------------------------------------------------ helper functions

\* AssociatePlacementWithShard that does not look for the placement in the list
AssociatePlacementWithShard_AlwaysAppends(st, p) ==
  LET shardId == Placement[p].shardId
      SI1 == IF shardId \in DOMAIN st.SI THEN st.SI ELSE st.SI @@ (shardId :> <<>>)
  IN [st EXCEPT !.SI = [SI1 EXCEPT ![shardId] = Append(@, p)]]

\* st is a record with the fields PI (ConnectionPlacementHash),
\* CI (ColocatedPlacementsHash), SI (ConnectionShardHash) and refs.
AssociatePlacementWithShard(st, p) ==
  LET shardId == Placement[p].shardId
      SI1 == IF shardId \in DOMAIN st.SI THEN st.SI ELSE st.SI @@ (shardId :> <<>>)
  IN IF p \in Range(SI1[shardId])
     THEN [st EXCEPT !.SI = SI1]
     ELSE [st EXCEPT !.SI = [SI1 EXCEPT ![shardId] = Append(@, p)]]

\* FindOrCreatePlacementEntry that allocates a reference of its own for a
\* colocated placement
FindOrCreatePlacementEntry_OwnReference(st, p) ==
  LET found == p \in DOMAIN st.PI
      colocated == Placement[p].partitionMethod \in {"HASH", "NONE"}
      key == ColocatedPlacementsHashKey(p)
      foundColocated == key \in DOMAIN st.CI
      conRef == ConRefAddress(p)
      st1 ==
        IF found THEN st
        ELSE IF colocated
        THEN LET CI1 == IF foundColocated THEN st.CI
                        ELSE st.CI @@ (key :> [primaryConnection |-> conRef,
                                               hasSecondaryConnections |-> FALSE])
                 refs1 == IF foundColocated THEN st.refs
                          ELSE st.refs @@ (conRef :> NewConnectionReference)
             IN [st EXCEPT
                   !.CI = CI1,
                   !.refs = [ r \in DOMAIN refs1 \cup {p} |->
                               IF r \in DOMAIN refs1 THEN refs1[r]
                               ELSE NewConnectionReference ],
                   !.PI = @ @@ (p :> [failed |-> FALSE,
                                      primaryConnection |-> p,
                                      hasSecondaryConnections |-> FALSE,
                                      colocatedEntry |-> key])]
        ELSE [st EXCEPT
                !.refs = @ @@ (conRef :> NewConnectionReference),
                !.PI = @ @@ (p :> [failed |-> FALSE,
                                   primaryConnection |-> conRef,
                                   hasSecondaryConnections |-> FALSE,
                                   colocatedEntry |-> NoKey])]
  IN AssociatePlacementWithShard(st1, p)

FindOrCreatePlacementEntry(st, p) ==
  LET found == p \in DOMAIN st.PI
      colocated == Placement[p].partitionMethod \in {"HASH", "NONE"}
      key == ColocatedPlacementsHashKey(p)
      foundColocated == key \in DOMAIN st.CI
      conRef == ConRefAddress(p)
      st1 ==
        IF found THEN st
        ELSE IF colocated
        THEN LET CI1 == IF foundColocated THEN st.CI
                        ELSE st.CI @@ (key :> [primaryConnection |-> conRef,
                                               hasSecondaryConnections |-> FALSE])
                 refs1 == IF foundColocated THEN st.refs
                          ELSE st.refs @@ (conRef :> NewConnectionReference)
             IN [st EXCEPT
                   !.CI = CI1,
                   !.refs = refs1,
                   !.PI = @ @@ (p :> [failed |-> FALSE,
                                      primaryConnection |-> CI1[key].primaryConnection,
                                      hasSecondaryConnections |-> FALSE,
                                      colocatedEntry |-> key])]
        ELSE [st EXCEPT
                !.refs = @ @@ (conRef :> NewConnectionReference),
                !.PI = @ @@ (p :> [failed |-> FALSE,
                                   primaryConnection |-> conRef,
                                   hasSecondaryConnections |-> FALSE,
                                   colocatedEntry |-> NoKey])]
  IN AssociatePlacementWithShard(st1, p)

\* connection->claimedExclusively; the struct of a closed connection has been
\* freed, a read through a dangling pointer yields either value (freedRead[c])
ClaimedExclusively(c, freedRead) ==
  IF conns[c].open THEN conns[c].claimedExclusively ELSE freedRead[c]

\* CanUseExistingConnection without the comparison of the user names
CanUseExistingConnection_AnyUser(forceNew, userName, connectionReference, freedRead) ==
  LET connection == connectionReference.connection
  IN IF connection = NoConn THEN FALSE
     ELSE IF ClaimedExclusively(connection, freedRead) THEN FALSE
     ELSE IF forceNew THEN FALSE
     ELSE TRUE

CanUseExistingConnection(forceNew, userName, connectionReference, freedRead) ==
  LET connection == connectionReference.connection
  IN IF connection = NoConn THEN FALSE
     ELSE IF ClaimedExclusively(connection, freedRead) THEN FALSE
     ELSE IF forceNew THEN FALSE
     ELSE IF connectionReference.userName # userName THEN FALSE
     ELSE TRUE

\* ------------------------------------------- StartPlacementListConnection

NoAccess == [placement |-> 0, accessType |-> "none"]

AcquireErrors ==
  {"DdlOnSecondaryRead", "DdlOnColocatedSecondaryRead", "MultiConnectionWrite",
   "NewConnOverDdl", "NewConnOverDml", "ParallelDdl"}

\* SelectionBranch without the check for DML on the other connection
SelectionBranch_NoDmlCheck(acc, placementEntry, placementConnection, accessType, forceNew, userName, freedRead) ==
  LET colocatedEntry == placementEntry.colocatedEntry
  IN IF placementConnection.connection = NoConn THEN "unassigned"
     ELSE IF accessType = "DDL" /\ placementEntry.hasSecondaryConnections
     THEN "DdlOnSecondaryRead"
     ELSE IF accessType = "DDL" /\ colocatedEntry # NoKey
             /\ acc.CI[colocatedEntry].hasSecondaryConnections
     THEN "DdlOnColocatedSecondaryRead"
     ELSE IF acc.foundModifyingConnection
     THEN IF (placementConnection.hadDDL \/ placementConnection.hadDML)
             /\ placementConnection.connection # acc.chosenConnection
          THEN "MultiConnectionWrite"
          ELSE "mustUseModifying"
     ELSE IF CanUseExistingConnection(forceNew, userName, placementConnection, freedRead)
     THEN "canUse"
     ELSE IF placementConnection.hadDDL THEN "NewConnOverDdl"
     ELSE IF accessType = "DDL" THEN "ParallelDdl"
     ELSE "readElsewhere"

\* SelectionBranch without the check of the colocated entry
SelectionBranch_NoColocatedCheck(acc, placementEntry, placementConnection, accessType, forceNew, userName, freedRead) ==
  LET colocatedEntry == placementEntry.colocatedEntry
  IN IF placementConnection.connection = NoConn THEN "unassigned"
     ELSE IF accessType = "DDL" /\ placementEntry.hasSecondaryConnections
     THEN "DdlOnSecondaryRead"
     ELSE IF acc.foundModifyingConnection
     THEN IF (placementConnection.hadDDL \/ placementConnection.hadDML)
             /\ placementConnection.connection # acc.chosenConnection
          THEN "MultiConnectionWrite"
          ELSE "mustUseModifying"
     ELSE IF CanUseExistingConnection(forceNew, userName, placementConnection, freedRead)
     THEN "canUse"
     ELSE IF placementConnection.hadDDL THEN "NewConnOverDdl"
     ELSE IF placementConnection.hadDML THEN "NewConnOverDml"
     ELSE IF accessType = "DDL" THEN "ParallelDdl"
     ELSE "readElsewhere"

\* SelectionBranch that follows the modifying connection without comparing
SelectionBranch_NoMultiCheck(acc, placementEntry, placementConnection, accessType, forceNew, userName, freedRead) ==
  LET colocatedEntry == placementEntry.colocatedEntry
  IN IF placementConnection.connection = NoConn THEN "unassigned"
     ELSE IF accessType = "DDL" /\ placementEntry.hasSecondaryConnections
     THEN "DdlOnSecondaryRead"
     ELSE IF accessType = "DDL" /\ colocatedEntry # NoKey
             /\ acc.CI[colocatedEntry].hasSecondaryConnections
     THEN "DdlOnColocatedSecondaryRead"
     ELSE IF acc.foundModifyingConnection
     THEN "mustUseModifying"
     ELSE IF CanUseExistingConnection(forceNew, userName, placementConnection, freedRead)
     THEN "canUse"
     ELSE IF placementConnection.hadDDL THEN "NewConnOverDdl"
     ELSE IF placementConnection.hadDML THEN "NewConnOverDml"
     ELSE IF accessType = "DDL" THEN "ParallelDdl"
     ELSE "readElsewhere"

\* SelectionBranch that only goes back to a connection that performed writes
SelectionBranch_ReuseWritersOnly(acc, placementEntry, placementConnection, accessType, forceNew, userName, freedRead) ==
  LET colocatedEntry == placementEntry.colocatedEntry
  IN IF placementConnection.connection = NoConn THEN "unassigned"
     ELSE IF accessType = "DDL" /\ placementEntry.hasSecondaryConnections
     THEN "DdlOnSecondaryRead"
     ELSE IF accessType = "DDL" /\ colocatedEntry # NoKey
             /\ acc.CI[colocatedEntry].hasSecondaryConnections
     THEN "DdlOnColocatedSecondaryRead"
     ELSE IF acc.foundModifyingConnection
     THEN IF (placementConnection.hadDDL \/ placementConnection.hadDML)
             /\ placementConnection.connection # acc.chosenConnection
          THEN "MultiConnectionWrite"
          ELSE "mustUseModifying"
     ELSE IF CanUseExistingConnection(forceNew, userName, placementConnection, freedRead)
             /\ (placementConnection.hadDDL \/ placementConnection.hadDML)
     THEN "canUse"
     ELSE IF placementConnection.hadDDL THEN "NewConnOverDdl"
     ELSE IF placementConnection.hadDML THEN "NewConnOverDml"
     ELSE IF accessType = "DDL" THEN "ParallelDdl"
     ELSE "readElsewhere"

\* SelectionBranch that looks at hadDML before hadDDL
SelectionBranch_DmlFirst(acc, placementEntry, placementConnection, accessType, forceNew, userName, freedRead) ==
  LET colocatedEntry == placementEntry.colocatedEntry
  IN IF placementConnection.connection = NoConn THEN "unassigned"
     ELSE IF accessType = "DDL" /\ placementEntry.hasSecondaryConnections
     THEN "DdlOnSecondaryRead"
     ELSE IF accessType = "DDL" /\ colocatedEntry # NoKey
             /\ acc.CI[colocatedEntry].hasSecondaryConnections
     THEN "DdlOnColocatedSecondaryRead"
     ELSE IF acc.foundModifyingConnection
     THEN IF (placementConnection.hadDDL \/ placementConnection.hadDML)
             /\ placementConnection.connection # acc.chosenConnection
          THEN "MultiConnectionWrite"
          ELSE "mustUseModifying"
     ELSE IF CanUseExistingConnection(forceNew, userName, placementConnection, freedRead)
     THEN "canUse"
     ELSE IF placementConnection.hadDML THEN "NewConnOverDml"
     ELSE IF placementConnection.hadDDL THEN "NewConnOverDdl"
     ELSE IF accessType = "DDL" THEN "ParallelDdl"
     ELSE "readElsewhere"

\* SelectionBranch without the check for DDL done over the bound connection
SelectionBranch_NoDdlCheck(acc, placementEntry, placementConnection, accessType, forceNew, userName, freedRead) ==
  LET colocatedEntry == placementEntry.colocatedEntry
  IN IF placementConnection.connection = NoConn THEN "unassigned"
     ELSE IF accessType = "DDL" /\ placementEntry.hasSecondaryConnections
     THEN "DdlOnSecondaryRead"
     ELSE IF accessType = "DDL" /\ colocatedEntry # NoKey
             /\ acc.CI[colocatedEntry].hasSecondaryConnections
     THEN "DdlOnColocatedSecondaryRead"
     ELSE IF acc.foundModifyingConnection
     THEN IF (placementConnection.hadDDL \/ placementConnection.hadDML)
             /\ placementConnection.connection # acc.chosenConnection
          THEN "MultiConnectionWrite"
          ELSE "mustUseModifying"
     ELSE IF CanUseExistingConnection(forceNew, userName, placementConnection, freedRead)
     THEN "canUse"
     ELSE IF placementConnection.hadDML THEN "NewConnOverDml"
     ELSE IF accessType = "DDL" THEN "ParallelDdl"
     ELSE "readElsewhere"

\* the branch of the if-chain of the first loop that the access takes
SelectionBranch(acc, placementEntry, placementConnection, accessType, forceNew, userName, freedRead) ==
  LET colocatedEntry == placementEntry.colocatedEntry
  IN IF placementConnection.connection = NoConn THEN "unassigned"
     ELSE IF accessType = "DDL" /\ placementEntry.hasSecondaryConnections
     THEN "DdlOnSecondaryRead"
     ELSE IF accessType = "DDL" /\ colocatedEntry # NoKey
             /\ acc.CI[colocatedEntry].hasSecondaryConnections
     THEN "DdlOnColocatedSecondaryRead"
     ELSE IF acc.foundModifyingConnection
     THEN IF (placementConnection.hadDDL \/ placementConnection.hadDML)
             /\ placementConnection.connection # acc.chosenConnection
          THEN "MultiConnectionWrite"
          ELSE "mustUseModifying"
     ELSE IF CanUseExistingConnection(forceNew, userName, placementConnection, freedRead)
     THEN "canUse"
     ELSE IF placementConnection.hadDDL THEN "NewConnOverDdl"
     ELSE IF placementConnection.hadDML THEN "NewConnOverDml"
     ELSE IF accessType = "DDL" THEN "ParallelDdl"
     ELSE "readElsewhere"

\* RecordBranch that records the access type on the reference right away
RecordBranch_RecordsEarly(st, access, placementConnection, branch) ==
  IF branch \in AcquireErrors
  THEN [st EXCEPT !.error = branch, !.errorAccess = access]
  ELSE [st EXCEPT
          !.refs[st.PI[access.placement].primaryConnection].hadDDL =
             IF access.accessType = "DDL" THEN TRUE ELSE @,
          !.refs[st.PI[access.placement].primaryConnection].hadDML =
             IF access.accessType = "DML" THEN TRUE ELSE @,
          !.chosenConnection =
             IF branch = "canUse" THEN placementConnection.connection ELSE @,
          !.foundModifyingConnection =
             IF branch = "canUse"
                /\ (placementConnection.hadDDL \/ placementConnection.hadDML)
             THEN TRUE ELSE @,
          !.placementEntryList = Append(@, access.placement)]

\* what the branch taken does to the locals of StartPlacementListConnection:
\* ereport(ERROR), or chosenConnection and foundModifyingConnection are set
\* and the entry is appended to placementEntryList
RecordBranch(st, access, placementConnection, branch) ==
  IF branch \in AcquireErrors
  THEN [st EXCEPT !.error = branch, !.errorAccess = access]
  ELSE [st EXCEPT
          !.chosenConnection =
             IF branch = "canUse" THEN placementConnection.connection ELSE @,
          !.foundModifyingConnection =
             IF branch = "canUse"
                /\ (placementConnection.hadDDL \/ placementConnection.hadDML)
             THEN TRUE ELSE @,
          !.placementEntryList = Append(@, access.placement)]

\* the body of the first loop for the entry found or created in st
SelectEntry(st, access, forceNew, userName, freedRead) ==
  RecordBranch(st, access, st.refs[st.PI[access.placement].primaryConnection],
               SelectionBranch(st, st.PI[access.placement],
                               st.refs[st.PI[access.placement].primaryConnection],
                               access.accessType, forceNew, userName, freedRead))

\* one iteration of the first loop; acc carries the hash tables, the
\* references and the locals of StartPlacementListConnection
SelectAccess(acc, access, forceNew, userName, freedRead) ==
  IF Placement[access.placement].shardId = INVALID_SHARD_ID THEN acc
  ELSE SelectEntry(FindOrCreatePlacementEntry(acc, access.placement), access,
                   forceNew, userName, freedRead)

RECURSIVE SelectionLoop(_, _, _, _, _, _)
SelectionLoop(acc, placementAccessList, i, forceNew, userName, freedRead) ==
  IF i > Len(placementAccessList) \/ acc.error # "none" THEN acc
  ELSE SelectionLoop(SelectAccess(acc, placementAccessList[i], forceNew, userName,
                                  freedRead),
                     placementAccessList, i + 1, forceNew, userName, freedRead)

SelectionPass(placementAccessList, forceNew, userName, freedRead) ==
  SelectionLoop([PI |-> ConnectionPlacementHash, CI |-> ColocatedPlacementsHash,
                 SI |-> ConnectionShardHash, refs |-> refs,
                 error |-> "none", errorAccess |-> NoAccess,
                 chosenConnection |-> NoConn,
                 foundModifyingConnection |-> FALSE, placementEntryList |-> <<>>],
                placementAccessList, 1, forceNew, userName, freedRead)

\* InstallAccess that does not flag the placement entry in the last branch
InstallAccess_NoSecondaryFlag(st, accessType, p, chosenConnection, userName) ==
  LET placementEntry == st.PI[p]
      r == placementEntry.primaryConnection
      placementConnection == st.refs[r]
      st1 ==
        IF placementConnection.connection = chosenConnection THEN st
        ELSE IF placementConnection.connection = NoConn
        THEN [st EXCEPT
                !.refs[r] = [connection |-> chosenConnection, hadDDL |-> FALSE,
                             hadDML |-> FALSE, userName |-> userName],
                !.conns[chosenConnection].referencedPlacements = Append(@, r)]
        ELSE LET st0 == IF accessType # "SELECT"
                        THEN [st EXCEPT !.refs[r].connection = chosenConnection,
                                        !.refs[r].userName = userName]
                        ELSE st
             IN [st0 EXCEPT
                   !.CI = IF placementEntry.colocatedEntry # NoKey
                          THEN [@ EXCEPT ![placementEntry.colocatedEntry]
                                           .hasSecondaryConnections = TRUE]
                          ELSE @]
  IN [st1 EXCEPT
        !.refs[r].hadDDL = IF accessType = "DDL" THEN TRUE ELSE @,
        !.refs[r].hadDML = IF accessType = "DML" THEN TRUE ELSE @]

\* InstallAccess that takes the flag back when the primary connection is used
InstallAccess_ResetsSecondary(st, accessType, p, chosenConnection, userName) ==
  LET placementEntry == st.PI[p]
      r == placementEntry.primaryConnection
      placementConnection == st.refs[r]
      st1 ==
        IF placementConnection.connection = chosenConnection
        THEN [st EXCEPT !.PI[p].hasSecondaryConnections = FALSE]
        ELSE IF placementConnection.connection = NoConn
        THEN [st EXCEPT
                !.refs[r] = [connection |-> chosenConnection, hadDDL |-> FALSE,
                             hadDML |-> FALSE, userName |-> userName],
                !.conns[chosenConnection].referencedPlacements = Append(@, r)]
        ELSE LET st0 == IF accessType # "SELECT"
                        THEN [st EXCEPT !.refs[r].connection = chosenConnection,
                                        !.refs[r].userName = userName]
                        ELSE st
             IN [st0 EXCEPT
                   !.PI[p].hasSecondaryConnections = TRUE,
                   !.CI = IF placementEntry.colocatedEntry # NoKey
                          THEN [@ EXCEPT ![placementEntry.colocatedEntry]
                                           .hasSecondaryConnections = TRUE]
                          ELSE @]
  IN [st1 EXCEPT
        !.refs[r].hadDDL = IF accessType = "DDL" THEN TRUE ELSE @,
        !.refs[r].hadDML = IF accessType = "DML" THEN TRUE ELSE @]

\* InstallAccess that remembers a secondary connection for reads only
InstallAccess_SecondaryForReads(st, accessType, p, chosenConnection, userName) ==
  LET placementEntry == st.PI[p]
      r == placementEntry.primaryConnection
      placementConnection == st.refs[r]
      st1 ==
        IF placementConnection.connection = chosenConnection THEN st
        ELSE IF placementConnection.connection = NoConn
        THEN [st EXCEPT
                !.refs[r] = [connection |-> chosenConnection, hadDDL |-> FALSE,
                             hadDML |-> FALSE, userName |-> userName],
                !.conns[chosenConnection].referencedPlacements = Append(@, r)]
        ELSE IF accessType # "SELECT"
        THEN [st EXCEPT !.refs[r].connection = chosenConnection,
                        !.refs[r].userName = userName]
        ELSE [st EXCEPT
                !.PI[p].hasSecondaryConnections = TRUE,
                !.CI = IF placementEntry.colocatedEntry # NoKey
                       THEN [@ EXCEPT ![placementEntry.colocatedEntry]
                                        .hasSecondaryConnections = TRUE]
                       ELSE @]
  IN [st1 EXCEPT
        !.refs[r].hadDDL = IF accessType = "DDL" THEN TRUE ELSE @,
        !.refs[r].hadDML = IF accessType = "DML" THEN TRUE ELSE @]

\* one iteration of the second loop; st carries PI, CI, refs and conns, and
\* in replaced what the last branch found on the references it met, which is
\* what the Asserts of that branch look at
InstallAccess(st, accessType, p, chosenConnection, userName) ==
  LET placementEntry == st.PI[p]
      r == placementEntry.primaryConnection
      placementConnection == st.refs[r]
      st1 ==
        IF placementConnection.connection = chosenConnection THEN st
        ELSE IF placementConnection.connection = NoConn
        THEN [st EXCEPT
                !.refs[r] = [connection |-> chosenConnection, hadDDL |-> FALSE,
                             hadDML |-> FALSE, userName |-> userName],
                !.conns[chosenConnection].referencedPlacements = Append(@, r)]
        ELSE LET st0 == IF accessType # "SELECT"
                        THEN [st EXCEPT !.refs[r].connection = chosenConnection,
                                        !.refs[r].userName = userName]
                        ELSE st
             IN [st0 EXCEPT
                   !.replaced = @ \cup {[accessType |-> accessType,
                                          hadDDL |-> placementConnection.hadDDL,
                                          hadDML |-> placementConnection.hadDML]},
                   !.PI[p].hasSecondaryConnections = TRUE,
                   !.CI = IF placementEntry.colocatedEntry # NoKey
                          THEN [@ EXCEPT ![placementEntry.colocatedEntry]
                                           .hasSecondaryConnections = TRUE]
                          ELSE @]
  IN [st1 EXCEPT
        !.refs[r].hadDDL = IF accessType = "DDL" THEN TRUE ELSE @,
        !.refs[r].hadDML = IF accessType = "DML" THEN TRUE ELSE @]

\* forboth() walks the access list and the entry list cell by cell and stops
\* at the end of the shorter one
RECURSIVE InstallLoop(_, _, _, _, _, _)
InstallLoop(st, placementAccessList, placementEntryList, i, chosenConnection, userName) ==
  IF i > Len(placementAccessList) \/ i > Len(placementEntryList) THEN st
  ELSE InstallLoop(InstallAccess(st, placementAccessList[i].accessType,
                                 placementEntryList[i], chosenConnection, userName),
                   placementAccessList, placementEntryList, i + 1,
                   chosenConnection, userName)

InstallationPass(sel, placementAccessList, chosenConnection, userName, conns0) ==
  InstallLoop([PI |-> sel.PI, CI |-> sel.CI, refs |-> sel.refs, conns |-> conns0,
               replaced |-> {}],
              placementAccessList, sel.placementEntryList, 1, chosenConnection, userName)

\* --------------------------------------------------------- connection pool

OpenConnections == { c \in DOMAIN conns : conns[c].open }

NewMultiConnection(nodeName) ==
  [open |-> TRUE, nodeName |-> nodeName, claimedExclusively |-> FALSE,
   transactionFailed |-> FALSE, referencedPlacements |-> <<>>]

\* StartNodeConnection: an idle pooled connection to the node, or a new one
PoolCandidates(forceNew, nodeName) ==
  (IF forceNew THEN {}
   ELSE { c \in OpenConnections :
            conns[c].nodeName = nodeName /\ ~conns[c].claimedExclusively })
  \cup (IF Cardinality(DOMAIN conns) < MaxConn
        THEN {Cardinality(DOMAIN conns) + 1} ELSE {})

\* ------------------------------------------------------------------ state

RealIn(placementAccessList) ==
  { a.placement : a \in { b \in Range(placementAccessList) :
                           Placement[b.placement].shardId # INVALID_SHARD_ID } }

IsColocated(p) == Placement[p].partitionMethod \in {"HASH", "NONE"}

\* the ConnectionReference FindOrCreatePlacementEntry(p) hands out in the
\* current state, NewConnectionReference if it would allocate one
RefOf(p) ==
  IF p \in DOMAIN ConnectionPlacementHash
  THEN refs[ConnectionPlacementHash[p].primaryConnection]
  ELSE IF IsColocated(p) /\ ColocatedPlacementsHashKey(p) \in DOMAIN ColocatedPlacementsHash
  THEN refs[ColocatedPlacementsHash[ColocatedPlacementsHashKey(p)].primaryConnection]
  ELSE NewConnectionReference

OwnSecondary(p) ==
  p \in DOMAIN ConnectionPlacementHash
  /\ ConnectionPlacementHash[p].hasSecondaryConnections

ColocatedSecondary(p) ==
  /\ IsColocated(p)
  /\ ColocatedPlacementsHashKey(p) \in DOMAIN ColocatedPlacementsHash
  /\ ColocatedPlacementsHash[ColocatedPlacementsHashKey(p)].hasSecondaryConnections

\* the placements whose entries hold something of the transaction: a write
\* recorded on the reference, or reads over several connections
PlacementsWithHistory ==
  { p \in DOMAIN ConnectionPlacementHash :
      \/ refs[ConnectionPlacementHash[p].primaryConnection].hadDDL
      \/ refs[ConnectionPlacementHash[p].primaryConnection].hadDML
      \/ OwnSecondary(p) \/ ColocatedSecondary(p) }

\* connections that successful acquires with a DML or DDL access on p returned
WritersOf(p) == { t[3] : t \in { u \in performed : u[1] = p } }

NoOp(op) ==
  [op |-> op, result |-> "none", connection |-> NoConn, fromPool |-> FALSE,
   obs |-> <<>>]

\* the backend is between two operations
Idle == last.op \in {"idle", "reset"}

InitState ==
  /\ ConnectionPlacementHash = <<>>
  /\ ColocatedPlacementsHash = <<>>
  /\ ConnectionShardHash = <<>>
  /\ refs = <<>>
  /\ conns = <<>>
  /\ performed = {}
  /\ last = NoOp("idle")

Init ==
  /\ InitState
  /\ workload \in Workloads
  /\ shardState = [ p \in RealPlacements |-> "FILE_FINALIZED" ]
  /\ budget = [calls |-> MaxCalls, listCalls |-> MaxListCalls, checks |-> 0]

SameNode(placementAccessList) ==
  \A i \in 1 .. Len(placementAccessList) :
    Placement[placementAccessList[i].placement].nodeName
      = Placement[placementAccessList[1].placement].nodeName

\* the closed connections a ConnectionReference still points to
DanglingConnections ==
  { refs[r].connection :
      r \in { q \in DOMAIN refs :
                refs[q].connection # NoConn /\ ~conns[refs[q].connection].open } }

\* what the reads of freed MultiConnection structs can yield
FreedReads == [DanglingConnections -> BOOLEAN]

ModifyingAccesses(placementAccessList, connection) ==
  { <<a.placement, a.accessType, connection>> :
      a \in { b \in Range(placementAccessList) :
                /\ b.accessType # "SELECT"
                /\ Placement[b.placement].shardId # INVALID_SHARD_ID } }

\* ---- what a call of StartPlacementListConnection did, for the properties;
\* ---- unprimed variables are the state before the call

\* a placement of the list was written over another connection that is open
ObsOtherWriter(placementAccessList, chosen) ==
  \E p \in RealIn(placementAccessList) :
    \E c \in WritersOf(p) : conns[c].open /\ c # chosen

\* a placement colocated with one of the list was written over another
\* connection that is open
ObsOtherColocatedWriter(placementAccessList, chosen) ==
  \E p2 \in RealIn(placementAccessList) :
    \E p1 \in RealPlacements \ {p2} :
      /\ IsColocated(p1) /\ IsColocated(p2)
      /\ ColocatedPlacementsHashKey(p1) = ColocatedPlacementsHashKey(p2)
      /\ \E c \in WritersOf(p1) : conns[c].open /\ c # chosen

\* every placement of the list is bound to the chosen connection afterwards
ObsAllChosen(placementAccessList, chosen, post) ==
  \A p \in RealIn(placementAccessList) :
    post.refs[post.PI[p].primaryConnection].connection = chosen

\* placement p keeps the connection it was bound to, as a secondary one is used
KeptPrimary(p, chosen, post) ==
  /\ RefOf(p).connection # NoConn
  /\ RefOf(p).connection # chosen
  /\ post.refs[post.PI[p].primaryConnection].connection = RefOf(p).connection
  /\ post.PI[p].hasSecondaryConnections

ObsChosenOrKept(placementAccessList, chosen, post) ==
  \A p \in RealIn(placementAccessList) :
    \/ post.refs[post.PI[p].primaryConnection].connection = chosen
    \/ KeptPrimary(p, chosen, post)

ObsKept(placementAccessList, chosen, post) ==
  \E p \in RealIn(placementAccessList) : KeptPrimary(p, chosen, post)

\* the DDL accesses of the list on a placement read over several connections
DdlOnSecondary(placementAccessList) ==
  { a \in Range(placementAccessList) :
      /\ a.accessType = "DDL"
      /\ Placement[a.placement].shardId # INVALID_SHARD_ID
      /\ OwnSecondary(a.placement) \/ ColocatedSecondary(a.placement) }

DdlErrorFor(p) ==
  IF OwnSecondary(p) THEN "DdlOnSecondaryRead" ELSE "DdlOnColocatedSecondaryRead"

\* the errors P2 asks for
ObsDdlClaim(placementAccessList) ==
  { DdlErrorFor(a.placement) : a \in DdlOnSecondary(placementAccessList) }

\* the first access of the list that is a DDL on a placement read over several
\* connections and whose ConnectionReference is bound
FirstBoundDdlOnSecondary(placementAccessList) ==
  LET hits == { i \in 1 .. Len(placementAccessList) :
                  /\ placementAccessList[i] \in DdlOnSecondary(placementAccessList)
                  /\ RefOf(placementAccessList[i].placement).connection # NoConn }
  IN IF hits = {} THEN 0
     ELSE CHOOSE i \in hits : \A j \in hits : i <= j

ObsDdlExpected(placementAccessList) ==
  LET i == FirstBoundDdlOnSecondary(placementAccessList)
  IN IF i = 0 THEN "none" ELSE DdlErrorFor(placementAccessList[i].placement)

\* the error was raised for that access
ObsDdlReached(placementAccessList, errorAccess) ==
  LET i == FirstBoundDdlOnSecondary(placementAccessList)
  IN i # 0 /\ errorAccess = placementAccessList[i]

\* two placements of the list were written over two different connections
ObsTwoWriters(placementAccessList) ==
  \E p, q \in RealIn(placementAccessList) :
    /\ RefOf(p).hadDDL \/ RefOf(p).hadDML
    /\ RefOf(q).hadDDL \/ RefOf(q).hadDML
    /\ RefOf(p).connection # NoConn /\ RefOf(q).connection # NoConn
    /\ RefOf(p).connection # RefOf(q).connection

\* no DDL access of the list is on a placement read over several connections,
\* and every connection a placement of the list is bound to is open and can
\* be reused by this call
ObsPlainReusable(placementAccessList, forceNew, userName) ==
  /\ DdlOnSecondary(placementAccessList) = {}
  /\ \A p \in RealIn(placementAccessList) :
       RefOf(p).connection # NoConn =>
         /\ conns[RefOf(p).connection].open
         /\ CanUseExistingConnection(forceNew, userName, RefOf(p), <<>>)

\* the errors asked for by the closed connections that wrote to placements
\* of the list
ObsClosedWriterKinds(placementAccessList) ==
  { IF \E t \in performed : t[1] = p /\ t[2] = "DDL" /\ ~conns[t[3]].open
    THEN "NewConnOverDdl" ELSE "NewConnOverDml" :
      p \in { q \in RealIn(placementAccessList) :
                \E c \in WritersOf(q) : ~conns[c].open } }

\* the call is the first after a transaction-end reset, for a placement that
\* had history in the transaction that ended
ObsResetHit(placementAccessList) ==
  last.op = "reset" /\ RealIn(placementAccessList) \cap last.obs.history # {}

ObsNoSecondary(post) ==
  /\ \A p \in DOMAIN post.PI : ~post.PI[p].hasSecondaryConnections
  /\ \A k \in DOMAIN post.CI : ~post.CI[k].hasSecondaryConnections

\* the placements of the list whose reference was bound to the connection
\* returned, for the requesting user, and not claimed exclusively
ObsReusedFrom(placementAccessList, userName, chosen, freedRead) ==
  { p \in RealIn(placementAccessList) :
      /\ chosen # NoConn
      /\ RefOf(p).connection = chosen
      /\ RefOf(p).userName = userName
      /\ ~ClaimedExclusively(chosen, freedRead) }

\* the connections the references of the placements of the list are bound to
BoundConnections(placementAccessList) ==
  { RefOf(p).connection : p \in RealIn(placementAccessList) } \ {NoConn}

\* the one open connection every bound reference of the list is bound to, if
\* the call can reuse it and no DDL access is on a placement read over several
\* connections; NoConn otherwise
ObsReuseTarget(placementAccessList, forceNew, userName) ==
  IF /\ Cardinality(BoundConnections(placementAccessList)) = 1
     /\ ~forceNew
     /\ DdlOnSecondary(placementAccessList) = {}
     /\ \A c \in BoundConnections(placementAccessList) :
          conns[c].open /\ ~conns[c].claimedExclusively
     /\ \A p \in RealIn(placementAccessList) :
          RefOf(p).connection # NoConn => RefOf(p).userName = userName
  THEN CHOOSE c \in BoundConnections(placementAccessList) : TRUE
  ELSE NoConn

ObsSomeUnbound(placementAccessList) ==
  \E p \in RealIn(placementAccessList) : RefOf(p).connection = NoConn

\* ---- the rule table of the selection pass, as the design document has it

\* reusable(flags, user, ref)
Reusable(forceNew, userName, ref, freedRead) ==
  /\ ref.connection # NoConn
  /\ ~ClaimedExclusively(ref.connection, freedRead)
  /\ ~forceNew
  /\ ref.userName = userName

\* a DDL access of the list is on a placement whose reference is bound to a
\* connection this call cannot reuse
ObsDdlOnUnusable(placementAccessList, forceNew, userName, freedRead) ==
  \E a \in Range(placementAccessList) :
    /\ a.accessType = "DDL"
    /\ Placement[a.placement].shardId # INVALID_SHARD_ID
    /\ RefOf(a.placement).connection # NoConn
    /\ ~Reusable(forceNew, userName, RefOf(a.placement), freedRead)

\* the flag of the given kind on the reference of placement p after the call
PostFlag(post, p, kind) ==
  IF kind = "DDL" THEN post.refs[post.PI[p].primaryConnection].hadDDL
  ELSE post.refs[post.PI[p].primaryConnection].hadDML

\* every DML and DDL access of the list is on record afterwards
ObsRecorded(placementAccessList, post) ==
  \A a \in Range(placementAccessList) :
    (Placement[a.placement].shardId # INVALID_SHARD_ID /\ a.accessType # "SELECT")
      => PostFlag(post, a.placement, a.accessType)

\* a flag the call has set on the reference of a placement of the list stands
\* for an access of that kind, in the list, on the placement or on one that
\* shares its reference
ObsNotInvented(placementAccessList, post) ==
  \A p \in RealIn(placementAccessList) : \A kind \in {"DML", "DDL"} :
    (PostFlag(post, p, kind)
       /\ ~(IF kind = "DDL" THEN RefOf(p).hadDDL ELSE RefOf(p).hadDML))
      => \E a \in Range(placementAccessList) :
           /\ Placement[a.placement].shardId # INVALID_SHARD_ID
           /\ a.accessType = kind
           /\ post.PI[a.placement].primaryConnection = post.PI[p].primaryConnection

\* the accesses of the list that are the first to reach the reference of their
\* placement in the second loop, while it is bound to another connection than
\* the chosen one
BoundElsewhere(placementAccessList, chosen, post) ==
  { i \in 1 .. Len(placementAccessList) :
      /\ Placement[placementAccessList[i].placement].shardId # INVALID_SHARD_ID
      /\ RefOf(placementAccessList[i].placement).connection \notin {NoConn, chosen}
      /\ \A j \in 1 .. (i - 1) :
           Placement[placementAccessList[j].placement].shardId # INVALID_SHARD_ID
             => post.PI[placementAccessList[j].placement].primaryConnection
                  # post.PI[placementAccessList[i].placement].primaryConnection }

\* such a placement, and its colocation group, is flagged afterwards
ObsSecondaryRemembered(placementAccessList, chosen, post) ==
  \A i \in BoundElsewhere(placementAccessList, chosen, post) :
    /\ post.PI[placementAccessList[i].placement].hasSecondaryConnections
    /\ post.PI[placementAccessList[i].placement].colocatedEntry # NoKey
         => post.CI[post.PI[placementAccessList[i].placement].colocatedEntry]
              .hasSecondaryConnections

\* a placement acquired over the connection it is bound to keeps its flag
ObsSecondaryUntouched(placementAccessList, chosen, post) ==
  \A p \in RealIn(placementAccessList) :
    RefOf(p).connection = chosen
      => post.PI[p].hasSecondaryConnections = OwnSecondary(p)

\* the list has an access on the dummy placement
ObsSentinel(placementAccessList) ==
  \E a \in Range(placementAccessList) :
    Placement[a.placement].shardId = INVALID_SHARD_ID

\* the first rule of R1 .. R9 whose precondition holds for an access on
\* placement p; with passAfterModifying, rule R4b (foundModifying is true:
\* pass, chosen stays) stands between R4 and R5
RuleFor(t, p, accessType, forceNew, userName, freedRead, passAfterModifying) ==
  IF RefOf(p).connection = NoConn THEN "R1"
  ELSE IF accessType = "DDL" /\ OwnSecondary(p) THEN "R2"
  ELSE IF accessType = "DDL" /\ ColocatedSecondary(p) THEN "R3"
  ELSE IF t.foundModifying /\ (RefOf(p).hadDDL \/ RefOf(p).hadDML)
          /\ RefOf(p).connection # t.chosen THEN "R4"
  ELSE IF passAfterModifying /\ t.foundModifying THEN "R4b"
  ELSE IF Reusable(forceNew, userName, RefOf(p), freedRead) THEN "R5"
  ELSE IF RefOf(p).hadDDL THEN "R6"
  ELSE IF RefOf(p).hadDML THEN "R7"
  ELSE IF accessType = "DDL" THEN "R8"
  ELSE "R9"

RuleError ==
  [ r \in {"R1", "R2", "R3", "R4", "R4b", "R5", "R6", "R7", "R8", "R9"} |->
      CASE r = "R2" -> "DdlOnSecondaryRead"
        [] r = "R3" -> "DdlOnColocatedSecondaryRead"
        [] r = "R4" -> "MultiConnectionWrite"
        [] r = "R6" -> "NewConnOverDdl"
        [] r = "R7" -> "NewConnOverDml"
        [] r = "R8" -> "ParallelDdl"
        [] OTHER -> "none" ]

\* the action of rule r on the outcome t = [error, chosen, foundModifying]
RuleAction(t, p, r) ==
  IF RuleError[r] # "none" THEN [t EXCEPT !.error = RuleError[r]]
  ELSE IF r = "R5"
  THEN [t EXCEPT !.chosen = RefOf(p).connection,
                 !.foundModifying = @ \/ RefOf(p).hadDDL \/ RefOf(p).hadDML]
  ELSE t

RECURSIVE RuleTable(_, _, _, _, _, _, _)
RuleTable(t, placementAccessList, i, forceNew, userName, freedRead, passAfterModifying) ==
  IF i > Len(placementAccessList) \/ t.error # "none" THEN t
  ELSE IF Placement[placementAccessList[i].placement].shardId = INVALID_SHARD_ID
  THEN RuleTable(t, placementAccessList, i + 1, forceNew, userName, freedRead,
                 passAfterModifying)
  ELSE RuleTable(RuleAction(t, placementAccessList[i].placement,
                            RuleFor(t, placementAccessList[i].placement,
                                    placementAccessList[i].accessType, forceNew,
                                    userName, freedRead, passAfterModifying)),
                 placementAccessList, i + 1, forceNew, userName, freedRead,
                 passAfterModifying)

\* the outcome of the selection pass of the code is the outcome t of the table
SameOutcome(sel, t) ==
  /\ sel.error = t.error
  /\ sel.error = "none" =>
       /\ sel.chosenConnection = t.chosen
       /\ sel.foundModifyingConnection = t.foundModifying

ObsTable(sel, placementAccessList, forceNew, userName, freedRead, passAfterModifying) ==
  SameOutcome(sel, RuleTable([error |-> "none", chosen |-> NoConn,
                              foundModifying |-> FALSE],
                             placementAccessList, 1, forceNew, userName, freedRead,
                             passAfterModifying))

Observe(placementAccessList, forceNew, userName, result, errorAccess, chosen, post, freedRead, sel) ==
  [ otherWriter |-> result = "ok" /\ ObsOtherWriter(placementAccessList, chosen),
    otherColocatedWriter |->
      result = "ok" /\ ObsOtherColocatedWriter(placementAccessList, chosen),
    allChosen |-> result = "ok" => ObsAllChosen(placementAccessList, chosen, post),
    chosenOrKept |-> result = "ok" => ObsChosenOrKept(placementAccessList, chosen, post),
    kept |-> result = "ok" /\ ObsKept(placementAccessList, chosen, post),
    ddlClaim |-> ObsDdlClaim(placementAccessList),
    ddlExpected |-> ObsDdlExpected(placementAccessList),
    ddlReached |-> ObsDdlReached(placementAccessList, errorAccess),
    twoWriters |-> ObsTwoWriters(placementAccessList),
    plainReusable |-> ObsPlainReusable(placementAccessList, forceNew, userName),
    closedWriterKinds |-> ObsClosedWriterKinds(placementAccessList),
    created |-> DOMAIN post.PI # DOMAIN ConnectionPlacementHash,
    afterReset |-> last.op = "reset",
    resetHit |-> ObsResetHit(placementAccessList),
    noSecondary |-> ObsNoSecondary(post),
    forceNew |-> forceNew,
    reusedFrom |-> ObsReusedFrom(placementAccessList, userName, chosen, freedRead),
    reuseTarget |-> ObsReuseTarget(placementAccessList, forceNew, userName),
    someUnbound |-> ObsSomeUnbound(placementAccessList),
    table |-> ObsTable(sel, placementAccessList, forceNew, userName, freedRead, FALSE),
    tablePassing |->
      ObsTable(sel, placementAccessList, forceNew, userName, freedRead, TRUE),
    ddlOnUnusable |-> ObsDdlOnUnusable(placementAccessList, forceNew, userName, freedRead),
    recorded |-> result = "ok" => ObsRecorded(placementAccessList, post),
    notInvented |-> result = "ok" => ObsNotInvented(placementAccessList, post),
    sentinel |-> ObsSentinel(placementAccessList),
    secondaryRemembered |->
      result = "ok" => ObsSecondaryRemembered(placementAccessList, chosen, post),
    secondaryUntouched |->
      result = "ok" => ObsSecondaryUntouched(placementAccessList, chosen, post),
    replaced |-> IF result = "ok" THEN post.replaced ELSE {},
    boundElsewhere |->
      IF result = "ok"
      THEN { placementAccessList[i].accessType :
               i \in BoundElsewhere(placementAccessList, chosen, post) }
      ELSE {} ]

\* the acquire ends with ereport(ERROR): the entries made by
\* FindOrCreatePlacementEntry stay in the hash tables
AcquireFails(sel, error, forceNew, placementAccessList, userName, freedRead) ==
  /\ ConnectionPlacementHash' = sel.PI
  /\ ColocatedPlacementsHash' = sel.CI
  /\ ConnectionShardHash' = sel.SI
  /\ refs' = sel.refs
  /\ UNCHANGED <<conns, shardState, performed>>
  /\ last' = [op |-> "acquire", result |-> error, connection |-> NoConn,
              fromPool |-> FALSE,
              obs |-> Observe(placementAccessList, forceNew, userName, error,
                              sel.errorAccess, NoConn, sel, freedRead, sel)]

AcquireReturns(sel, chosenConnection, fromPool, conns0, forceNew, placementAccessList, userName, freedRead) ==
  \E inst \in {InstallationPass(sel, placementAccessList, chosenConnection, userName,
                               conns0)} :
     /\ ConnectionPlacementHash' = inst.PI
     /\ ColocatedPlacementsHash' = inst.CI
     /\ ConnectionShardHash' = sel.SI
     /\ refs' = inst.refs
     /\ conns' = inst.conns
     /\ UNCHANGED shardState
     /\ performed' = performed \cup ModifyingAccesses(placementAccessList, chosenConnection)
     /\ last' = [op |-> "acquire", result |-> "ok", connection |-> chosenConnection,
                 fromPool |-> fromPool,
                 obs |-> Observe(placementAccessList, forceNew, userName, "ok",
                                 NoAccess, chosenConnection, inst, freedRead, sel)]

StartPlacementListConnection(flags, placementAccessList, userName) ==
  LET forceNew == "FORCE_NEW_CONNECTION" \in flags IN
  /\ \E freedRead \in FreedReads :
     \E sel \in {SelectionPass(placementAccessList, forceNew, userName, freedRead)} :
       LET nodeName == Placement[placementAccessList[1].placement].nodeName
       IN IF sel.error # "none"
          THEN AcquireFails(sel, sel.error, forceNew, placementAccessList, userName,
                            freedRead)
          ELSE IF sel.chosenConnection # NoConn
          THEN AcquireReturns(sel, sel.chosenConnection, FALSE, conns, forceNew,
                              placementAccessList, userName, freedRead)
          ELSE \/ AcquireFails(sel, "PoolError", forceNew, placementAccessList, userName,
                               freedRead)
               \/ \E c \in PoolCandidates(forceNew, nodeName) :
                    AcquireReturns(sel, c, TRUE,
                                   IF c \in DOMAIN conns THEN conns
                                   ELSE Append(conns, NewMultiConnection(nodeName)),
                                   forceNew, placementAccessList, userName, freedRead)

StartPlacementConnection(flags, placement, userName) ==
  LET accessType == IF "FOR_DDL" \in flags THEN "DDL"
                    ELSE IF "FOR_DML" \in flags THEN "DML"
                    ELSE "SELECT"
  IN /\ Idle
     /\ budget.calls > 0
     /\ budget' = [budget EXCEPT !.calls = @ - 1]
     /\ [placement |-> placement, accessType |-> accessType] \in AccessesOf(workload)
     /\ UNCHANGED workload
     /\ StartPlacementListConnection(
          flags, <<[placement |-> placement, accessType |-> accessType]>>, userName)

GetPlacementListConnection(flags, placementAccessList, userName) ==
  /\ Idle
  /\ budget.calls > 0 /\ budget.listCalls > 0
  /\ budget' = [budget EXCEPT !.calls = @ - 1, !.listCalls = @ - 1]
  /\ SameNode(placementAccessList)
  /\ UNCHANGED workload
  /\ StartPlacementListConnection(flags, placementAccessList, userName)

\* control is back at the caller, which has looked at the result
Return ==
  /\ ~Idle
  /\ last' = NoOp("idle")
  /\ UNCHANGED <<ConnectionPlacementHash, ColocatedPlacementsHash, ConnectionShardHash,
                 refs, conns, shardState, workload, budget, performed>>

\* ------------------------------------------------- connection_management.c

ClaimConnectionExclusively(c) ==
  /\ Idle
  /\ conns[c].open /\ ~conns[c].claimedExclusively
  /\ conns' = [conns EXCEPT ![c].claimedExclusively = TRUE]
  /\ UNCHANGED last
  /\ UNCHANGED <<ConnectionPlacementHash, ColocatedPlacementsHash, ConnectionShardHash,
                 refs, shardState, workload, budget, performed>>

UnclaimConnection(c) ==
  /\ Idle
  /\ conns[c].open /\ conns[c].claimedExclusively
  /\ conns' = [conns EXCEPT ![c].claimedExclusively = FALSE]
  /\ UNCHANGED last
  /\ UNCHANGED <<ConnectionPlacementHash, ColocatedPlacementsHash, ConnectionShardHash,
                 refs, shardState, workload, budget, performed>>

\* CloseShardPlacementAssociation that also forgets what the references did
CloseShardPlacementAssociation_ForgetsWrites(c) ==
  [ r \in DOMAIN refs |->
      IF r \in Range(conns[c].referencedPlacements)
      THEN [refs[r] EXCEPT !.connection = NoConn, !.hadDDL = FALSE, !.hadDML = FALSE]
      ELSE refs[r] ]

\* set connection to NULL for all references to the connection
CloseShardPlacementAssociation(c) ==
  [ r \in DOMAIN refs |->
      IF r \in Range(conns[c].referencedPlacements)
      THEN [refs[r] EXCEPT !.connection = NoConn]
      ELSE refs[r] ]

\* the pool closes a connection before transaction end
CloseConnection(c) ==
  /\ Idle
  /\ conns[c].open
  /\ refs' = CloseShardPlacementAssociation(c)
  /\ conns' = [conns EXCEPT ![c].open = FALSE]
  /\ UNCHANGED last
  /\ UNCHANGED <<ConnectionPlacementHash, ColocatedPlacementsHash, ConnectionShardHash,
                 shardState, workload, budget, performed>>

\* ResetShardPlacementAssociation that leaves the list as it is
ResetShardPlacementAssociation_KeepsList(connection) == connection

ResetShardPlacementAssociation(connection) ==
  [connection EXCEPT !.referencedPlacements = <<>>]

\* all entries are deleted; the ConnectionReference structs go with
\* TopTransactionContext
ResetPlacementConnectionManagement ==
  /\ ConnectionPlacementHash' = <<>>
  /\ ConnectionShardHash' = <<>>
  /\ ColocatedPlacementsHash' = <<>>
  /\ refs' = <<>>

\* end of XACT_EVENT_COMMIT / XACT_EVENT_ABORT: the hash tables are reset, and
\* connection_management.c resets every connection that stays open for the
\* next transaction
TransactionEnd ==
  /\ Idle
  /\ ResetPlacementConnectionManagement
  /\ conns' = [ c \in DOMAIN conns |->
                 [ResetShardPlacementAssociation(conns[c])
                    EXCEPT !.transactionFailed = FALSE] ]
  /\ performed' = {}
  /\ last' = IF last.op = "reset" /\ ConnectionPlacementHash = <<>> THEN last
             ELSE [NoOp("reset") EXCEPT !.obs = [history |-> PlacementsWithHistory]]
  /\ UNCHANGED <<shardState, workload, budget>>

\* ------------------------------------------------------ commit-time checks

\* connection->remoteTransaction.transactionFailed, read like claimedExclusively
TransactionFailed(c, freedRead) ==
  IF conns[c].open THEN conns[c].transactionFailed ELSE freedRead[c]

\* st is a record with the fields PI (ConnectionPlacementHash) and shardState;
\* the result has the field ok for the value returned
\* CheckShardPlacements that gives up on a shard as soon as a placement failed
CheckShardPlacements_AnyFailure(st, shardId, freedRead) ==
  LET placementConnections == Range(ConnectionShardHash[shardId])
      modified ==
        { p \in placementConnections :
            refs[st.PI[p].primaryConnection].hadDDL
              \/ refs[st.PI[p].primaryConnection].hadDML }
      failing ==
        { p \in modified :
            LET connection == refs[st.PI[p].primaryConnection].connection
            IN connection = NoConn \/ TransactionFailed(connection, freedRead) }
      failures == Cardinality(failing)
      PI1 == [ p \in DOMAIN st.PI |->
                 IF p \in failing THEN [st.PI[p] EXCEPT !.failed = TRUE] ELSE st.PI[p] ]
  IN IF failures > 0
     THEN [PI |-> PI1, shardState |-> st.shardState, ok |-> FALSE]
     ELSE [PI |-> PI1,
           shardState |->
             [ p \in DOMAIN st.shardState |->
                 IF p \in placementConnections /\ PI1[p].failed
                    /\ st.shardState[p] = "FILE_FINALIZED"
                 THEN "FILE_INACTIVE" ELSE st.shardState[p] ],
           ok |-> TRUE]

CheckShardPlacements(st, shardId, freedRead) ==
  LET placementConnections == Range(ConnectionShardHash[shardId])
      modified ==
        { p \in placementConnections :
            refs[st.PI[p].primaryConnection].hadDDL
              \/ refs[st.PI[p].primaryConnection].hadDML }
      failing ==
        { p \in modified :
            LET connection == refs[st.PI[p].primaryConnection].connection
            IN connection = NoConn \/ TransactionFailed(connection, freedRead) }
      failures == Cardinality(failing)
      successes == Cardinality(modified \ failing)
      PI1 == [ p \in DOMAIN st.PI |->
                 IF p \in failing THEN [st.PI[p] EXCEPT !.failed = TRUE] ELSE st.PI[p] ]
  IN IF failures > 0 /\ successes = 0
     THEN [PI |-> PI1, shardState |-> st.shardState, ok |-> FALSE]
     ELSE [PI |-> PI1,
           shardState |->
             [ p \in DOMAIN st.shardState |->
                 IF p \in placementConnections /\ PI1[p].failed
                    /\ st.shardState[p] = "FILE_FINALIZED"
                 THEN "FILE_INACTIVE" ELSE st.shardState[p] ],
           ok |-> TRUE]

\* the orders in which hash_seq_search can hand out the entries of
\* ConnectionShardHash
SeqScans ==
  { order \in SeqsUpTo(DOMAIN ConnectionShardHash, Cardinality(DOMAIN ConnectionShardHash)) :
      /\ Len(order) = Cardinality(DOMAIN ConnectionShardHash)
      /\ Range(order) = DOMAIN ConnectionShardHash }

\* what the loop over the shard entries does with the value returned for a
\* shard: with stopAtFailure a failed shard ends it (ereport(ERROR)), else the
\* shard is reported with a WARNING
\* ShardChecked that raises the error whatever the level asked for
ShardChecked_AlwaysError(st, shardId, checked, stopAtFailure) ==
  [st EXCEPT !.PI = checked.PI,
             !.shardState = checked.shardState,
             !.attempts = @ + 1,
             !.successes = IF checked.ok THEN @ + 1 ELSE @,
             !.error = IF ~checked.ok THEN "ShardAllPlacementsFailed" ELSE @,
             !.examined = @ \cup {shardId}]

ShardChecked(st, shardId, checked, stopAtFailure) ==
  [st EXCEPT !.PI = checked.PI,
             !.shardState = checked.shardState,
             !.attempts = @ + 1,
             !.successes = IF checked.ok THEN @ + 1 ELSE @,
             !.error = IF ~checked.ok /\ stopAtFailure
                       THEN "ShardAllPlacementsFailed" ELSE @,
             !.warnings = IF ~checked.ok /\ ~stopAtFailure THEN @ \cup {shardId} ELSE @,
             !.examined = @ \cup {shardId}]

RECURSIVE CheckShardLoop(_, _, _, _, _)
CheckShardLoop(st, order, i, stopAtFailure, freedRead) ==
  IF i > Len(order) \/ st.error # "none" THEN st
  ELSE CheckShardLoop(
         ShardChecked(st, order[i], CheckShardPlacements(st, order[i], freedRead),
                      stopAtFailure),
         order, i + 1, stopAtFailure, freedRead)

CheckShards(order, stopAtFailure, freedRead) ==
  CheckShardLoop([PI |-> ConnectionPlacementHash, shardState |-> shardState,
                  error |-> "none", warnings |-> {}, attempts |-> 0, successes |-> 0,
                  examined |-> {}],
                 order, 1, stopAtFailure, freedRead)

\* ---- what a commit-time check found, for the properties; unprimed
\* ---- variables are the state before the check

\* the placement entries of a shard
MembersOf(shardId) == Range(ConnectionShardHash[shardId])

\* the primary ConnectionReference of p recorded DDL or DML
ObsModified(p) ==
  refs[ConnectionPlacementHash[p].primaryConnection].hadDDL
    \/ refs[ConnectionPlacementHash[p].primaryConnection].hadDML

\* a modified placement without connection, or on a failed one
ObsFailure(p, freedRead) ==
  /\ ObsModified(p)
  /\ \/ refs[ConnectionPlacementHash[p].primaryConnection].connection = NoConn
     \/ TransactionFailed(refs[ConnectionPlacementHash[p].primaryConnection].connection,
                          freedRead)

\* the shards with a failure and without a success among their modified
\* placements
ObsAllFailed(freedRead) ==
  { sh \in DOMAIN ConnectionShardHash :
      /\ \E p \in MembersOf(sh) : ObsFailure(p, freedRead)
      /\ \A p \in MembersOf(sh) : ObsModified(p) => ObsFailure(p, freedRead) }

\* the placements the check of their shard has to make FILE_INACTIVE
ObsToInvalidate(examined, freedRead) ==
  { p \in DOMAIN ConnectionPlacementHash :
      /\ Placement[p].shardId \in examined \ ObsAllFailed(freedRead)
      /\ ObsFailure(p, freedRead)
      /\ shardState[p] = "FILE_FINALIZED" }

\* the shards the transaction wrote to
ObsWrittenShards == { Placement[t[1]].shardId : t \in performed }

\* the placements written in the transaction that the check does not see as
\* modified
ObsLostHistory == { t[1] : t \in { u \in performed : ~ObsModified(u[1]) } }

\* the placements written over a connection that is closed or whose remote
\* transaction failed, and that the check does not count as failures
ObsMissedFailures(freedRead) ==
  { t[1] : t \in { u \in performed :
                     /\ ~conns[u[3]].open \/ conns[u[3]].transactionFailed
                     /\ ~ObsFailure(u[1], freedRead) } }

ObserveCheck(walk, using2PC, freedRead) ==
  [ warnings |-> walk.warnings,
    using2PC |-> using2PC,
    shards |-> DOMAIN ConnectionShardHash,
    examined |-> walk.examined,
    allFailed |-> ObsAllFailed(freedRead),
    toInvalidate |-> ObsToInvalidate(walk.examined, freedRead),
    invalidated |-> { p \in DOMAIN shardState : walk.shardState[p] # shardState[p] },
    nowInactive |-> { p \in DOMAIN shardState : walk.shardState[p] = "FILE_INACTIVE" },
    writtenShards |-> ObsWrittenShards,
    lostHistory |-> ObsLostHistory,
    missedFailures |-> ObsMissedFailures(freedRead) ]

CheckDone(op, walk, result, using2PC, freedRead) ==
  /\ ConnectionPlacementHash' = walk.PI
  /\ shardState' = walk.shardState
  /\ last' = [op |-> op, result |-> result, connection |-> NoConn, fromPool |-> FALSE,
              obs |-> ObserveCheck(walk, using2PC, freedRead)]
  /\ budget' = [budget EXCEPT !.checks = @ - 1]
  /\ UNCHANGED <<ColocatedPlacementsHash, ConnectionShardHash, refs, conns, workload,
                 performed>>

MarkFailedShardPlacements ==
  /\ Idle
  /\ budget.checks > 0
  /\ \E order \in SeqScans, freedRead \in FreedReads :
     \E walk \in {CheckShards(order, TRUE, freedRead)} :
          CheckDone("MarkFailedShardPlacements", walk,
                    IF walk.error # "none" THEN walk.error ELSE "ok", TRUE, freedRead)

PostCommitMarkFailedShardPlacements(using2PC) ==
  /\ Idle
  /\ budget.checks > 0
  /\ \E order \in SeqScans, freedRead \in FreedReads :
     \E walk \in {CheckShards(order, using2PC, freedRead)} :
          CheckDone("PostCommitMarkFailedShardPlacements", walk,
                    IF walk.error # "none" THEN walk.error
                    ELSE IF walk.attempts > 0 /\ walk.successes = 0
                    THEN "NoShardCommitted" ELSE "ok", using2PC, freedRead)

\* remote_transaction.c: a command or the commit on the connection failed
MarkRemoteTransactionFailed(c) ==
  /\ Idle
  /\ conns[c].open /\ ~conns[c].transactionFailed
  /\ conns' = [conns EXCEPT ![c].transactionFailed = TRUE]
  /\ UNCHANGED last
  /\ UNCHANGED <<ConnectionPlacementHash, ColocatedPlacementsHash, ConnectionShardHash,
                 refs, shardState, workload, budget, performed>>

Next ==
  \/ \E flags \in SUBSET Flags, placement \in PlacementIds, userName \in Users :
       StartPlacementConnection(flags, placement, userName)
  \/ \E flags \in SUBSET {"FORCE_NEW_CONNECTION"},
        placementAccessList \in AccessLists[workload], userName \in ListUsers :
       GetPlacementListConnection(flags, placementAccessList, userName)
  \/ Return
  \/ \E c \in DOMAIN conns : ClaimConnectionExclusively(c)
  \/ \E c \in DOMAIN conns : UnclaimConnection(c)
  \/ \E c \in DOMAIN conns : CloseConnection(c)
  \/ TransactionEnd

Spec == Init /\ [][Next]_vars

\* one transaction of single placement commands of one user on a replicated
\* shard and a shard colocated with it, with the checks made before and after
\* its commit
InitCommit ==
  /\ InitState
  /\ workload \in CommitWorkloads
  /\ shardState \in { st \in [RealPlacements -> ShardStates] :
                        \A p \in RealPlacements :
                          st[p] # "FILE_FINALIZED" => (p = 4 /\ st[p] = "FILE_TO_DELETE") }
  /\ budget = [calls |-> MaxCommitCalls, listCalls |-> 0, checks |-> MaxChecks]

NextCommit ==
  \/ \E flags \in SUBSET Flags, placement \in PlacementIds, userName \in ListUsers :
       StartPlacementConnection(flags, placement, userName)
  \/ Return
  \/ \E c \in DOMAIN conns : CloseConnection(c)
  \/ \E c \in DOMAIN conns : MarkRemoteTransactionFailed(c)
  \/ MarkFailedShardPlacements
  \/ \E using2PC \in BOOLEAN : PostCommitMarkFailedShardPlacements(using2PC)

SpecCommit == InitCommit /\ [][NextCommit]_vars

\* ------------------------------------------------------------ properties

AcquireDone == last.op = "acquire"
AcquireOk == last.op = "acquire" /\ last.result = "ok"
AcquireFailed == last.op = "acquire" /\ last.result # "ok"

HadWrite(r) == refs[r].hadDDL \/ refs[r].hadDML

\* C1: once a successful acquire with a DML or DDL access on placement p has
\* returned connection C, every later successful acquire whose list contains p
\* returns C, as long as C has not been closed.
C1_SingleWriterPerPlacement == AcquireOk => ~last.obs.otherWriter

\* C2: once a successful acquire with a DML or DDL access on placement p1 has
\* returned connection C, every successful acquire whose list contains a
\* placement p2 colocated with p1 returns C, as long as C has not been closed.
C2_SingleWriterPerColocationGroup == AcquireOk => ~last.obs.otherColocatedWriter

\* C3 (P1), as claimed: after a successful acquire every placement of the list
\* that is not the dummy placement has primary.conn = chosen.
C3_AllPlacementsOnChosen == AcquireOk => last.obs.allChosen

\* C3 (P1), amended: after a successful acquire every placement of the list
\* that is not the dummy placement has primary.conn = chosen, or it keeps the
\* connection it was bound to before the call and has hasSecondary = true.
C3_OnChosenOrKeptWithSecondary == AcquireOk => last.obs.chosenOrKept

\* a successful acquire left a placement on the connection it had before
C3_Witness == AcquireOk /\ last.obs.kept /\ ~last.obs.allChosen

\* C4 (I4), as claimed: no PlacementEntry has hasSecondary = true together
\* with primary.hadDDL = true or primary.hadDML = true.
C4_NoSecondaryWithWrite ==
  \A p \in DOMAIN ConnectionPlacementHash :
    ConnectionPlacementHash[p].hasSecondaryConnections
      => ~HadWrite(ConnectionPlacementHash[p].primaryConnection)

\* C4 (I4), amended: hasSecondary is only ever set on a PlacementEntry whose
\* primary ConnectionRef has hadDDL = false and hadDML = false at the start of
\* that acquire (the acquire itself may then record its own DML on it).
C4_SecondaryOnlySetOnReadOnly ==
  [][ \A p \in DOMAIN ConnectionPlacementHash' :
        (ConnectionPlacementHash'[p].hasSecondaryConnections /\ ~OwnSecondary(p))
          => (~RefOf(p).hadDDL /\ ~RefOf(p).hadDML) ]_vars

\* a placement that was read over one connection and then written over another
C4_Witness ==
  \E p \in DOMAIN ConnectionPlacementHash :
    /\ ConnectionPlacementHash[p].hasSecondaryConnections
    /\ refs[ConnectionPlacementHash[p].primaryConnection].hadDML

\* C5 (P2), as claimed: an acquire with a DDL access on a placement whose
\* hasSecondary (or whose colocated entry's hasSecondary) was true before the
\* call fails with DdlOnSecondaryRead (DdlOnColocatedSecondaryRead), whatever
\* the position of the access and the state of the ConnectionRef.
C5_DdlOnSecondaryFails ==
  (AcquireDone /\ last.obs.ddlClaim # {}) => last.result \in last.obs.ddlClaim

\* C5 (P2), amended: if moreover the ConnectionRef of the placement is bound
\* (conn is not None), the acquire fails, and the error raised for that access
\* is DdlOnSecondaryRead (DdlOnColocatedSecondaryRead); an earlier access of
\* the list may raise its own error first.
C5_BoundDdlOnSecondaryFails ==
  (AcquireDone /\ last.obs.ddlExpected # "none")
    => /\ last.result \in AcquireErrors
       /\ last.obs.ddlReached => last.result = last.obs.ddlExpected

\* a DDL on a placement whose colocated placement was read over two connections
C5_Witness ==
  /\ AcquireDone /\ last.obs.ddlReached
  /\ last.result = "DdlOnColocatedSecondaryRead"

\* C6, as claimed: a failed acquire leaves PI, CI, SI and the ConnectionRefs
\* exactly as before the call.
C6_FailedAcquireChangesNothing ==
  [][ (last'.op = "acquire" /\ last'.result # "ok")
        => UNCHANGED <<ConnectionPlacementHash, ColocatedPlacementsHash,
                       ConnectionShardHash, refs>> ]_vars

\* C6, amended: a failed acquire changes no field of an existing entry or
\* ConnectionRef and removes nothing; it only adds, for placements of its list,
\* PlacementEntries and ColocatedEntries with hasSecondary = false (failed =
\* false), unbound ConnectionRefs without flags, and shard memberships.
C6_FailedAcquireOnlyCreates ==
  [][ (last'.op = "acquire" /\ last'.result # "ok") =>
        /\ UNCHANGED conns
        /\ \A p \in DOMAIN ConnectionPlacementHash :
             /\ p \in DOMAIN ConnectionPlacementHash'
             /\ ConnectionPlacementHash'[p] = ConnectionPlacementHash[p]
        /\ \A p \in DOMAIN ConnectionPlacementHash' \ DOMAIN ConnectionPlacementHash :
             /\ ~ConnectionPlacementHash'[p].hasSecondaryConnections
             /\ ~ConnectionPlacementHash'[p].failed
        /\ \A k \in DOMAIN ColocatedPlacementsHash :
             /\ k \in DOMAIN ColocatedPlacementsHash'
             /\ ColocatedPlacementsHash'[k] = ColocatedPlacementsHash[k]
        /\ \A k \in DOMAIN ColocatedPlacementsHash' \ DOMAIN ColocatedPlacementsHash :
             ~ColocatedPlacementsHash'[k].hasSecondaryConnections
        /\ \A r \in DOMAIN refs : r \in DOMAIN refs' /\ refs'[r] = refs[r]
        /\ \A r \in DOMAIN refs' \ DOMAIN refs : refs'[r] = NewConnectionReference
        /\ \A sh \in DOMAIN ConnectionShardHash :
             /\ sh \in DOMAIN ConnectionShardHash'
             /\ SubSeq(ConnectionShardHash'[sh], 1, Len(ConnectionShardHash[sh]))
                  = ConnectionShardHash[sh] ]_vars

\* an acquire that failed after it had created a PlacementEntry
C6_Witness == AcquireFailed /\ last.result \in AcquireErrors /\ last.obs.created

\* C7 (P3), as claimed: an acquire whose list has two placements written over
\* two different connections fails with MultiConnectionWrite.
C7_TwoWritersFailMultiConnection ==
  (AcquireDone /\ last.obs.twoWriters) => last.result = "MultiConnectionWrite"

\* C7 (P3), amended: such an acquire never returns a connection: it fails in
\* the selection pass; the error is MultiConnectionWrite when every connection
\* bound to one of its placements can be reused by the call (not claimed
\* exclusively, same user, no FORCE_NEW_CONNECTION) and no DDL access is on a
\* placement with hasSecondary, else the error of a rule that matches first.
C7_TwoWritersFail ==
  (AcquireDone /\ last.obs.twoWriters)
    => /\ last.result \in AcquireErrors
       /\ last.obs.plainReusable => last.result = "MultiConnectionWrite"

C7_Witness ==
  /\ AcquireDone /\ last.obs.twoWriters /\ last.obs.plainReusable
  /\ last.result = "MultiConnectionWrite"

\* C8: after the connection that executed DML or DDL on placement p has been
\* closed, an acquire whose list contains p never succeeds, and the error of
\* its selection pass is NewConnOverDdl (DDL had been executed) or
\* NewConnOverDml (only DML).
C8_HistorySurvivesClosure ==
  (AcquireDone /\ last.obs.closedWriterKinds # {})
    => /\ last.result # "ok"
       /\ last.result \in AcquireErrors => last.result \in last.obs.closedWriterKinds

\* C9 (P4 / I2): the primary ConnectionRef of every PlacementEntry of a
\* placement with partitionMethod HASH or NONE is the ConnectionRef of the
\* ColocatedEntry of its colocation key.
C9_SharedConnectionReference ==
  \A p \in DOMAIN ConnectionPlacementHash :
    IsColocated(p) =>
      /\ ColocatedPlacementsHashKey(p) \in DOMAIN ColocatedPlacementsHash
      /\ ConnectionPlacementHash[p].colocatedEntry = ColocatedPlacementsHashKey(p)
      /\ ConnectionPlacementHash[p].primaryConnection
           = ColocatedPlacementsHash[ColocatedPlacementsHashKey(p)].primaryConnection

\* two colocated placements share a bound reference that records a write
C9_Witness ==
  /\ {1, 2} \subseteq DOMAIN ConnectionPlacementHash
  /\ refs[ConnectionPlacementHash[2].primaryConnection].connection # NoConn
  /\ refs[ConnectionPlacementHash[2].primaryConnection].hadDML

\* the transaction-end reset empties the hash tables
ResetStep ==
  /\ ConnectionPlacementHash' = <<>>
  /\ ColocatedPlacementsHash' = <<>>
  /\ ConnectionShardHash' = <<>>

\* C10 (P5 / I3): between two transaction-end resets hasSecondary of a
\* PlacementEntry or a ColocatedEntry never changes from true to false, under
\* acquires (successful or failed), connection closures and commit-time checks.
C10_SecondaryNeverCleared ==
  [][ ResetStep \/
        /\ \A p \in DOMAIN ConnectionPlacementHash :
             ConnectionPlacementHash[p].hasSecondaryConnections
               => /\ p \in DOMAIN ConnectionPlacementHash'
                  /\ ConnectionPlacementHash'[p].hasSecondaryConnections
        /\ \A k \in DOMAIN ColocatedPlacementsHash :
             ColocatedPlacementsHash[k].hasSecondaryConnections
               => /\ k \in DOMAIN ColocatedPlacementsHash'
                  /\ ColocatedPlacementsHash'[k].hasSecondaryConnections ]_vars

\* a commit-time check has run on a placement read over several connections
C10_Witness ==
  /\ last.op \in {"MarkFailedShardPlacements", "PostCommitMarkFailedShardPlacements"}
  /\ \E p \in DOMAIN ConnectionPlacementHash :
       /\ ConnectionPlacementHash[p].hasSecondaryConnections
       /\ ColocatedPlacementsHash[ConnectionPlacementHash[p].colocatedEntry]
            .hasSecondaryConnections

\* the pool closes connection c
CloseStep(c) == conns[c].open /\ ~conns'[c].open

\* C11 (P7): the close callback for connection C sets conn to None on each
\* ConnectionRef of C's referenced list and changes nothing else: hadDDL, hadDML
\* and userName of those refs, every other ConnectionRef, and every
\* PlacementEntry, ColocatedEntry and ShardEntry are as before the close.
C11_CloseOnlyUnbinds ==
  [][ \A c \in DOMAIN conns :
        CloseStep(c) =>
          /\ DOMAIN refs' = DOMAIN refs
          /\ \A r \in DOMAIN refs :
               IF r \in Range(conns[c].referencedPlacements)
               THEN refs'[r] = [refs[r] EXCEPT !.connection = NoConn]
               ELSE refs'[r] = refs[r]
          /\ UNCHANGED <<ConnectionPlacementHash, ColocatedPlacementsHash,
                         ConnectionShardHash, shardState>> ]_vars

\* a reference that recorded DDL has lost its connection
C11_Witness ==
  \E r \in DOMAIN refs : refs[r].connection = NoConn /\ refs[r].hadDDL

C13_ReuseOnlyWhenReusable ==
  (AcquireOk /\ ~last.fromPool)
    => /\ last.obs.reusedFrom # {}
       /\ ~last.obs.forceNew

\* a recorded connection was handed out again
C13_Witness == AcquireOk /\ ~last.fromPool /\ last.obs.reusedFrom # {}

\* C14: if every placement of the list that is not the dummy placement has a
\* ConnectionRef that is unbound or bound to one open connection C, C is not
\* claimed exclusively, the bound refs are of the requesting user,
\* FORCE_NEW_CONNECTION is not set, at least one ref is bound to C, and no DDL
\* access is on a placement with own or colocated hasSecondary, then the
\* acquire succeeds and returns C without asking the pool.
C14_ReuseWhenPossible ==
  (AcquireDone /\ last.obs.reuseTarget # NoConn)
    => /\ last.result = "ok"
       /\ last.connection = last.obs.reuseTarget
       /\ ~last.fromPool

\* a list with a bound and an unbound placement went to the bound connection
C14_Witness ==
  /\ AcquireOk /\ last.obs.reuseTarget # NoConn /\ last.obs.someUnbound
  /\ last.connection = last.obs.reuseTarget

PreCommitCheck == last.op = "MarkFailedShardPlacements"
PostCommitCheck == last.op = "PostCommitMarkFailedShardPlacements"

\* the placements that successful acquires accessed with DML or DDL
Written == { t[1] : t \in performed }

\* C15: MarkFailedShardPlacements raises ShardAllPlacementsFailed if and only
\* if some shard of SI has a modified placement classified as failure (conn is
\* None, or the remote transaction of the connection failed) and no modified
\* placement classified as success; it never only warns.
C15_PreCommitErrorIffAllFailed ==
  PreCommitCheck =>
    /\ last.result = "ShardAllPlacementsFailed" <=> last.obs.allFailed # {}
    /\ last.obs.warnings = {}

\* the check before commit found a shard without a placement left
C15_Witness ==
  /\ PreCommitCheck /\ last.result = "ShardAllPlacementsFailed"
  /\ \E p \in DOMAIN ConnectionPlacementHash :
       refs[ConnectionPlacementHash[p].primaryConnection].connection # NoConn

\* C16: a commit-time check moves to INACTIVE exactly the placements that are
\* modified, classified as failure in this check and FINALIZED, of the shards
\* it examined that did not signal shard-wide failure; no other placement gets
\* a catalog update, also when the check runs several times in a transaction.
C16_ExactInvalidation ==
  (PreCommitCheck \/ PostCommitCheck) => last.obs.invalidated = last.obs.toInvalidate

\* C17: a placement that the transaction accessed with SELECT only is never
\* classified at commit time: it is never marked failed (so it cannot make its
\* shard report ShardAllPlacementsFailed) and never moved to INACTIVE, whatever
\* happened to its connections and to other placements, colocated ones too.
C17_ReadOnlyNeverClassified ==
  /\ \A p \in DOMAIN ConnectionPlacementHash :
       ConnectionPlacementHash[p].failed => p \in Written
  /\ (PreCommitCheck \/ PostCommitCheck) => last.obs.invalidated \subseteq Written

\* C18: PostCommitMarkFailedShardPlacements(using_2pc) raises an error for a
\* shard whose modified placements all failed when using_2pc is true; when it
\* is false every such shard only gets a warning, every shard of SI is
\* examined, and the failed FINALIZED placements of the other shards are
\* INACTIVE afterwards.
C18_PostCommitSeverity ==
  PostCommitCheck =>
    /\ last.obs.using2PC =>
         (last.result = "ShardAllPlacementsFailed" <=> last.obs.allFailed # {})
    /\ ~last.obs.using2PC =>
         /\ last.result # "ShardAllPlacementsFailed"
         /\ last.obs.warnings = last.obs.allFailed
         /\ last.obs.examined = last.obs.shards
         /\ last.obs.toInvalidate \subseteq last.obs.nowInactive

\* without 2PC a shard was reported with a warning and a failed placement of
\* another shard was made INACTIVE
C18_Witness ==
  /\ PostCommitCheck /\ ~last.obs.using2PC
  /\ last.obs.warnings # {} /\ last.obs.toInvalidate # {}
  /\ last.obs.toInvalidate \subseteq last.obs.nowInactive

\* C19: with using_2pc = false the check after commit raises NoShardCommitted
\* if and only if at least one shard was examined and no examined shard
\* succeeded; in particular it is raised whenever every shard the transaction
\* modified lost all of its modified placements.
C19_AggregateAllFailed ==
  (PostCommitCheck /\ ~last.obs.using2PC) =>
    /\ last.result = "NoShardCommitted"
         <=> (last.obs.shards # {} /\ last.obs.shards \subseteq last.obs.allFailed)
    /\ (last.obs.writtenShards # {} /\ last.obs.writtenShards \subseteq last.obs.allFailed)
         => last.result = "NoShardCommitted"

\* C20, as claimed: the outcome of the selection pass (the error raised, or
\* else the chosen connection and foundModifying) is that of rules R1 to R9
\* evaluated in listed order, first match wins, for each access that is not on
\* the dummy placement, also after foundModifying has become true.
C20_SelectionIsRuleTable == AcquireDone => last.obs.table

\* C20, amended: the same, with the rule "foundModifying is true: pass, chosen
\* and foundModifying stay" between R4 and R5, so that R5 to R9 only apply
\* while foundModifying is false.
C20_SelectionIsRuleTableUntilModifying == AcquireDone => last.obs.tablePassing

\* an acquire whose list went on after a writing connection had been found, and
\* where R5 would have moved to another connection
C20_Witness == AcquireOk /\ last.obs.tablePassing /\ ~last.obs.table


\* C21: an acquire whose list has a DDL access on a placement whose
\* ConnectionRef is bound to a connection the call cannot reuse (claimed
\* exclusively, other user, FORCE_NEW_CONNECTION) never succeeds: it fails in
\* the selection pass, wherever the access sits in the list.
C21_NoParallelDdl ==
  (AcquireDone /\ last.obs.ddlOnUnusable) => last.result \in AcquireErrors


\* no entry of the three hash tables stands for the dummy placement
NoSentinelEntry ==
  /\ \A p \in DOMAIN ConnectionPlacementHash : Placement[p].shardId # INVALID_SHARD_ID
  /\ INVALID_SHARD_ID \notin DOMAIN ConnectionShardHash
  /\ \A k \in DOMAIN ColocatedPlacementsHash :
       \E p \in RealPlacements : IsColocated(p) /\ ColocatedPlacementsHashKey(p) = k

\* C22: after a successful acquire every DML access of the list on a real
\* placement has hadDML on the placement's primary ConnectionRef and every DDL
\* access has hadDDL, no flag is set for a placement without such an access
\* (own or colocated), also with sentinel accesses anywhere in the list; the
\* sentinel accesses create no PI, CI or SI entry.
C22_AccessKindsOnRightPlacement ==
  AcquireOk => /\ last.obs.recorded
               /\ last.obs.notInvented
               /\ NoSentinelEntry


\* C23: when a successful acquire returns connection C and the second loop
\* reaches a placement of the list whose ConnectionRef is bound to a
\* connection other than C, the placement's hasSecondary and that of its
\* colocated entry are true afterwards, for SELECT and for DML accesses; a
\* placement acquired over the connection it is bound to keeps its
\* hasSecondary as it was.
C23_SecondaryRemembered ==
  AcquireOk => last.obs.secondaryRemembered /\ last.obs.secondaryUntouched

\* a DML and a SELECT access have each reached a reference bound elsewhere,
\* in a colocation group
C23_Witness ==
  /\ AcquireOk
  /\ {"DML", "SELECT"} \subseteq last.obs.boundElsewhere
  /\ \E k \in DOMAIN ColocatedPlacementsHash :
       ColocatedPlacementsHash[k].hasSecondaryConnections


MembershipsOf(p) ==
  { <<shardId, i>> \in (DOMAIN ConnectionShardHash) \X (1 .. Cardinality(PlacementIds)) :
      /\ i <= Len(ConnectionShardHash[shardId])
      /\ ConnectionShardHash[shardId][i] = p }

\* C25 (I5): every PlacementEntry of PI is a member of exactly one ShardEntry's
\* list, that of its shardId, exactly once, however often and over however
\* many connections the placement was acquired; there is no ShardEntry for
\* the INVALID sentinel shard.
C25_OneShardMembership ==
  /\ \A p \in DOMAIN ConnectionPlacementHash :
       /\ Cardinality(MembershipsOf(p)) = 1
       /\ \A m \in MembershipsOf(p) : m[1] = Placement[p].shardId
  /\ INVALID_SHARD_ID \notin DOMAIN ConnectionShardHash

\* a list with a sentinel access has been acquired, and a placement has been
\* acquired over two connections
C25_Witness ==
  /\ AcquireOk /\ last.obs.sentinel
  /\ \E p \in DOMAIN ConnectionPlacementHash :
       ConnectionPlacementHash[p].hasSecondaryConnections


\* the ConnectionRefs that stand in the referencedPlacements list of connection c
ReferencedBy(c) == Range(conns[c].referencedPlacements)

\* C26: a ConnectionRef whose conn is connection C is a member of C's
\* referencedPlacements list and of no other open connection's list; so the
\* close callback of C changes only refs bound to C, and once it has run no
\* ConnectionRef still has conn = C.
C26_ReferencedListConsistent ==
  /\ \A r \in DOMAIN refs :
       refs[r].connection # NoConn =>
         /\ r \in ReferencedBy(refs[r].connection)
         /\ \A c \in OpenConnections \ {refs[r].connection} : r \notin ReferencedBy(c)
  /\ DanglingConnections = {}


\* C27: a successful acquire never returns a connection for which the close
\* callback has already been invoked, under any interleaving of acquires,
\* exclusive claims and closures.
C27_NoClosedConnectionReturned ==
  AcquireOk => conns[last.connection].open


\* C28: if a successful acquire of the transaction had a DML or DDL access on
\* placement p, every later commit-time check treats p as modified, and counts
\* it as a failure if the connection that performed the modification was
\* closed or its remote transaction failed, whatever acquires and closures
\* happened in between.
C28_HistoryKeptUntilCommit ==
  (PreCommitCheck \/ PostCommitCheck)
    => last.obs.lostHistory = {} /\ last.obs.missedFailures = {}

====
